---- MODULE Spec2Model ----
(***************************************************************************)
(* Model of the browser calculator of src/script.js: the CalculatorState   *)
(* store, the CalculationEngine (compute, calculate) and the InputHandler  *)
(* (appendNumber, setOperation, clear, backspace, equals), and the two     *)
(* lines written by the DisplayController (formatNumber, updateDisplay).   *)
(* Spec drives the handlers with the four operator symbols of compute;     *)
(* SpecAnyOperator also with a symbol compute has no case for.             *)
(*                                                                         *)
(* Operand strings are sequences of one-character strings, so that         *)
(* parseFloat and Number.prototype.toString are real conversions.          *)
(* The operator symbols of the buttons are written in ASCII:               *)
(*   "+" plus, "-" minus (U+2212), "*" times (U+00D7), "/" divide (U+00F7).*)
(*                                                                         *)
(* Numbers.  A JavaScript number is modelled by the decimal it prints as:  *)
(* sign, mantissa and decimal scale.  The model follows IEEE-754 double    *)
(* arithmetic only where it is exact or correctly rounded from exact       *)
(* operands: both operands of an arithmetic operation must be binary       *)
(* fractions (so that parseFloat is exact), and the result must be a       *)
(* terminating decimal of at most MaxFrac fraction digits and of magnitude *)
(* at most MaxResult.  Any other calculation has kind "beyond" or exceeds  *)
(* the bounds of the model: the handler that needs it is not explored      *)
(* (CalcInBounds).  Within these bounds every result is in [1e-6, 1e21)    *)
(* or zero, the range in which toString uses plain decimal notation.       *)
(***************************************************************************)
EXTENDS Integers, Sequences, FiniteSets, TLC

\* ------------------------------------------------------------------------
\* Bounds of the model
\* ------------------------------------------------------------------------

\* longest operand a user types (characters of currentOperand)
MaxLen == 3

\* largest magnitude of a computed result
MaxResult == 50

\* most fraction digits of a computed result
MaxFrac == 1

\* the digit buttons explored (a subset of the ten data-number buttons)
Digits == {"0", "5"}

\* the tokens appendNumber receives: digit buttons and the decimal point
Tokens == Digits \cup {"."}

\* the four data-operator buttons
Operators == {"+", "-", "*", "/"}

\* a data-operator symbol that compute has no case for
UnknownOperator == "%"

\* the symbols setOperation may be handed: it stores any string
OperatorTokens == Operators \cup {UnknownOperator}

\* operation = null
NULL == "null"

\* ------------------------------------------------------------------------
\* Characters and small arithmetic helpers
\* ------------------------------------------------------------------------

DigitSeq == <<"0", "1", "2", "3", "4", "5", "6", "7", "8", "9">>

AllDigits == {DigitSeq[i] : i \in 1..10}

DigitVal(c) == (CHOOSE i \in 1..10 : DigitSeq[i] = c) - 1

RECURSIVE Pow(_, _)
Pow(b, k) == IF k = 0 THEN 1 ELSE b * Pow(b, k - 1)

RECURSIVE GCD(_, _)
GCD(a, b) == IF b = 0 THEN a ELSE GCD(b, a % b)

Max(a, b) == IF a >= b THEN a ELSE b

\* String.prototype.includes for a single character
Includes(s, c) == \E i \in 1..Len(s) : s[i] = c

\* number of "." characters of a string
DotCount(s) == Cardinality({i \in 1..Len(s) : s[i] = "."})

\* ------------------------------------------------------------------------
\* JavaScript numbers: kind "num" is (-1)^neg * mant / 10^scale
\* ------------------------------------------------------------------------

NaN == [kind |-> "nan", neg |-> FALSE, mant |-> 0, scale |-> 0]

Beyond == [kind |-> "beyond", neg |-> FALSE, mant |-> 0, scale |-> 0]

RECURSIVE Norm(_, _, _)
Norm(neg, m, s) ==
    IF s > 0 /\ m % 10 = 0 THEN Norm(neg, m \div 10, s - 1)
    ELSE [kind |-> "num", neg |-> neg, mant |-> m, scale |-> s]

Zero == Norm(FALSE, 0, 0)

IsNaN(x) == x.kind = "nan"

\* x === 0 (true of +0 and -0)
IsZero(x) == x.kind = "num" /\ x.mant = 0

\* the double nearest to x is x itself: x is a binary fraction
BinaryExact(x) == x.kind = "num" /\ x.mant % Pow(5, x.scale) = 0

\* longest prefix of s made of decimal digits
RECURSIVE DigitPrefix(_)
DigitPrefix(s) ==
    IF s # <<>> /\ Head(s) \in AllDigits THEN <<Head(s)>> \o DigitPrefix(Tail(s))
    ELSE <<>>

RECURSIVE DigitsValue(_, _)
DigitsValue(s, acc) ==
    IF s = <<>> THEN acc ELSE DigitsValue(Tail(s), 10 * acc + DigitVal(Head(s)))

\* parseFloat: optional sign, digits, optional "." and digits; parsing stops
\* at the first character that does not continue the literal; NaN when no
\* digit was read.  (Exponents and "Infinity" never occur within the bounds.)
parseFloat(s) ==
    LET signed == s # <<>> /\ Head(s) \in {"-", "+"}
        neg    == s # <<>> /\ Head(s) = "-"
        body   == IF signed THEN Tail(s) ELSE s
        int    == DigitPrefix(body)
        rest   == SubSeq(body, Len(int) + 1, Len(body))
        frac   == IF rest # <<>> /\ Head(rest) = "." THEN DigitPrefix(Tail(rest))
                  ELSE <<>>
    IN  IF int = <<>> /\ frac = <<>> THEN NaN
        ELSE Norm(neg, DigitsValue(int \o frac, 0), Len(frac))

RECURSIVE NatToString(_)
NatToString(n) ==
    IF n < 10 THEN <<DigitSeq[n + 1]>>
    ELSE NatToString(n \div 10) \o <<DigitSeq[(n % 10) + 1]>>

\* the digits of n left-padded with zeros to width w
RECURSIVE PadLeft(_, _)
PadLeft(s, w) == IF Len(s) >= w THEN s ELSE PadLeft(<<"0">> \o s, w)

\* Number.prototype.toString (radix 10), decimal notation
NumToString(x) ==
    IF x.kind = "nan" THEN <<"N", "a", "N">>
    ELSE IF x.mant = 0 THEN <<"0">>
    ELSE LET p    == Pow(10, x.scale)
             int  == NatToString(x.mant \div p)
             frac == IF x.scale = 0 THEN <<>>
                     ELSE <<".">> \o PadLeft(NatToString(x.mant % p), x.scale)
         IN  (IF x.neg THEN <<"-">> ELSE <<>>) \o int \o frac

\* ------------------------------------------------------------------------
\* IEEE-754 arithmetic on the numbers above
\* ------------------------------------------------------------------------

Signed(x) == IF x.neg THEN 0 - x.mant ELSE x.mant

Abs(v) == IF v < 0 THEN 0 - v ELSE v

Negate(x) == [x EXCEPT !.neg = ~x.neg]

\* prevNum + currentNum
Add(x, y) ==
    IF ~(BinaryExact(x) /\ BinaryExact(y)) THEN Beyond
    ELSE LET s == Max(x.scale, y.scale)
             v == Signed(x) * Pow(10, s - x.scale) + Signed(y) * Pow(10, s - y.scale)
         IN  IF v = 0 THEN Norm(x.neg /\ y.neg /\ x.mant = 0 /\ y.mant = 0, 0, 0)
             ELSE Norm(v < 0, Abs(v), s)

\* prevNum - currentNum
Sub(x, y) == IF y.kind = "num" THEN Add(x, Negate(y)) ELSE Beyond

\* prevNum * currentNum
Mul(x, y) ==
    IF ~(BinaryExact(x) /\ BinaryExact(y)) THEN Beyond
    ELSE Norm(x.neg # y.neg, x.mant * y.mant, x.scale + y.scale)

\* prevNum / currentNum for currentNum # 0: the quotient of two binary
\* fractions is correctly rounded, so it prints as the exact quotient when
\* that is a decimal of at most MaxFrac fraction digits
Div(x, y) ==
    IF ~(BinaryExact(x) /\ BinaryExact(y)) \/ y.mant = 0 THEN Beyond
    ELSE LET num == x.mant * Pow(10, y.scale)
             den == y.mant * Pow(10, x.scale)
             g   == GCD(num, den)
             n   == num \div g
             d   == den \div g
             ks  == {k \in 0..MaxFrac : Pow(10, k) % d = 0}
         IN  IF ks = {} THEN Beyond
             ELSE LET k == CHOOSE k \in ks : \A j \in ks : k <= j
                      q == Pow(10, k) \div d
                  IN  Norm(x.neg # y.neg, n * q, k)


\* ------------------------------------------------------------------------
\* CalculatorState: the four fields held by the state module
\* ------------------------------------------------------------------------

VARIABLES
    currentOperand,      \* string shown on the current line, default "0"
    previousOperand,     \* left operand of the pending operation, "" if none
    operation,           \* pending operator symbol or NULL
    shouldResetScreen,   \* next digit starts a fresh operand
    displayCurrent,      \* textContent of the currentOperand element
    displayPrevious,     \* textContent of the previousOperand element
    alerts,              \* alert() calls made by the last handler
    calcs,               \* compute() calls made by the last handler
    last,                \* the last handler invoked: <<name, argument>>;
                         \* clear records whether the store was not in its
                         \* default state, backspace the handler it followed
                         \* and the compute() calls that handler made
    chain                \* observer of the input sequence since the default state

state == <<currentOperand, previousOperand, operation, shouldResetScreen>>

vars == <<currentOperand, previousOperand, operation, shouldResetScreen,
          displayCurrent, displayPrevious, alerts, calcs, last, chain>>

\* the store and the two display lines as a handler sees them on entry (no
\* alert raised, nothing computed)
Store ==
    [currentOperand |-> currentOperand, previousOperand |-> previousOperand,
     operation |-> operation, shouldResetScreen |-> shouldResetScreen,
     displayCurrent |-> displayCurrent, displayPrevious |-> displayPrevious,
     alerts |-> 0, calcs |-> 0]

\* reset that forgets to clear shouldResetScreen
resetKeepsFlag(st) ==
    [st EXCEPT !.currentOperand = <<"0">>, !.previousOperand = <<>>,
               !.operation = NULL]

\* CalculatorState.reset
reset(st) ==
    [st EXCEPT !.currentOperand = <<"0">>, !.previousOperand = <<>>,
               !.operation = NULL, !.shouldResetScreen = FALSE]

\* the state after construction, also the state reset() restores
Default ==
    [currentOperand |-> <<"0">>, previousOperand |-> <<>>,
     operation |-> NULL, shouldResetScreen |-> FALSE]

Fields(st) ==
    [currentOperand |-> st.currentOperand, previousOperand |-> st.previousOperand,
     operation |-> st.operation, shouldResetScreen |-> st.shouldResetScreen]

\* ------------------------------------------------------------------------
\* DisplayController
\* ------------------------------------------------------------------------

\* the decimal literal 999999999999 as its digits
LargeLimit == [i \in 1..12 |-> "9"]

\* 0.000001 is 10^-SmallLimitScale
SmallLimitScale == 6

\* the argument of toExponential
ExponentialDigits == 6

maximumFractionDigits == 10

\* digits of the integer part of |x|
IntegerDigits(x) == NatToString(x.mant \div Pow(10, x.scale))

\* a > b for digit strings of the same length
DigitsGreater(a, b) ==
    \E i \in 1..Len(a) :
        /\ DigitVal(a[i]) > DigitVal(b[i])
        /\ \A j \in 1..(i - 1) : a[j] = b[j]

\* Math.abs(x) > 999999999999
AboveLargeLimit(x) ==
    LET ip == IntegerDigits(x)
    IN  \/ Len(ip) > Len(LargeLimit)
        \/ /\ Len(ip) = Len(LargeLimit)
           /\ \/ DigitsGreater(ip, LargeLimit)
              \/ ip = LargeLimit /\ x.scale > 0

\* Math.abs(x) < 0.000001 && x !== 0
BelowSmallLimit(x) ==
    /\ x.mant # 0
    /\ x.scale > SmallLimitScale
    /\ x.mant < Pow(10, x.scale - SmallLimitScale)

\* Number.prototype.toExponential(d) of a nonzero number: one digit, ".",
\* d digits (rounded half up), "e", the sign of the exponent and the exponent
toExponential(x, d) ==
    LET n     == Len(NatToString(x.mant))
        keep  == d + 1
        q0    == IF n <= keep THEN x.mant * Pow(10, keep - n)
                 ELSE (x.mant + 5 * Pow(10, n - keep - 1)) \div Pow(10, n - keep)
        carry == q0 = Pow(10, keep)
        qs    == NatToString(IF carry THEN Pow(10, d) ELSE q0)
        e     == (n - 1 - x.scale) + (IF carry THEN 1 ELSE 0)
    IN  (IF x.neg THEN <<"-">> ELSE <<>>)
        \o <<qs[1], ".">> \o SubSeq(qs, 2, keep)
        \o <<"e", IF e < 0 THEN "-" ELSE "+">> \o NatToString(Abs(e))

\* digit grouping of en-US: a comma before every group of three digits
RECURSIVE Grouped(_)
Grouped(s) ==
    IF Len(s) <= 3 THEN s
    ELSE Grouped(SubSeq(s, 1, Len(s) - 3)) \o <<",">> \o SubSeq(s, Len(s) - 2, Len(s))

\* x rounded (half away from zero) to at most d fraction digits
RoundedTo(x, d) ==
    IF x.scale <= d THEN x
    ELSE Norm(x.neg,
              (x.mant + 5 * Pow(10, x.scale - d - 1)) \div Pow(10, x.scale - d),
              d)

\* toLocaleString('en-US', {maximumFractionDigits: 10})
toLocaleString(x) ==
    LET r    == RoundedTo(x, maximumFractionDigits)
        p    == Pow(10, r.scale)
        frac == IF r.scale = 0 THEN <<>>
                ELSE <<".">> \o PadLeft(NatToString(r.mant % p), r.scale)
    IN  (IF r.neg THEN <<"-">> ELSE <<>>) \o Grouped(IntegerDigits(r)) \o frac

formatNumber(number) ==
    IF number = <<>> THEN <<>>
    ELSE LET floatNumber == parseFloat(number)
         IN  IF IsNaN(floatNumber) THEN <<"0">>
             ELSE IF AboveLargeLimit(floatNumber) \/ BelowSmallLimit(floatNumber)
                  THEN toExponential(floatNumber, ExponentialDigits)
                  ELSE toLocaleString(floatNumber)

updateDisplay(st) ==
    [st EXCEPT
        !.displayCurrent = formatNumber(st.currentOperand),
        !.displayPrevious =
            IF st.operation # NULL /\ st.previousOperand # <<>>
            THEN formatNumber(st.previousOperand) \o <<" ", st.operation>>
            ELSE <<>>]

\* ------------------------------------------------------------------------
\* CalculationEngine
\* ------------------------------------------------------------------------

\* compute testing the wrong operand for zero before dividing
computeNumZeroPrev(prevNum, currentNum, operator) ==
    IF IsNaN(prevNum) \/ IsNaN(currentNum) THEN [result |-> Zero, alert |-> 0]
    ELSE CASE operator = "+" -> [result |-> Add(prevNum, currentNum), alert |-> 0]
           [] operator = "-" -> [result |-> Sub(prevNum, currentNum), alert |-> 0]
           [] operator = "*" -> [result |-> Mul(prevNum, currentNum), alert |-> 0]
           [] operator = "/" ->
                IF IsZero(prevNum) THEN [result |-> Zero, alert |-> 1]
                ELSE [result |-> Div(prevNum, currentNum), alert |-> 0]
           [] OTHER -> [result |-> currentNum, alert |-> 0]

\* compute falling back to the previous operand for an unknown operator
computeNumDefaultPrev(prevNum, currentNum, operator) ==
    IF IsNaN(prevNum) \/ IsNaN(currentNum) THEN [result |-> Zero, alert |-> 0]
    ELSE CASE operator = "+" -> [result |-> Add(prevNum, currentNum), alert |-> 0]
           [] operator = "-" -> [result |-> Sub(prevNum, currentNum), alert |-> 0]
           [] operator = "*" -> [result |-> Mul(prevNum, currentNum), alert |-> 0]
           [] operator = "/" ->
                IF IsZero(currentNum) THEN [result |-> Zero, alert |-> 1]
                ELSE [result |-> Div(prevNum, currentNum), alert |-> 0]
           [] OTHER -> [result |-> prevNum, alert |-> 0]

\* the body of compute once both operands are parsed
computeNum(prevNum, currentNum, operator) ==
    IF IsNaN(prevNum) \/ IsNaN(currentNum) THEN [result |-> Zero, alert |-> 0]
    ELSE CASE operator = "+" -> [result |-> Add(prevNum, currentNum), alert |-> 0]
           [] operator = "-" -> [result |-> Sub(prevNum, currentNum), alert |-> 0]
           [] operator = "*" -> [result |-> Mul(prevNum, currentNum), alert |-> 0]
           [] operator = "/" ->
                IF IsZero(currentNum) THEN [result |-> Zero, alert |-> 1]
                ELSE [result |-> Div(prevNum, currentNum), alert |-> 0]
           [] OTHER -> [result |-> currentNum, alert |-> 0]

compute(prev, current, operator) ==
    computeNum(parseFloat(prev), parseFloat(current), operator)

\* calculate that leaves previousOperand in place
calculateKeepsPrevious(st) ==
    IF st.previousOperand = <<>> \/ st.operation = NULL THEN st
    ELSE LET r == compute(st.previousOperand, st.currentOperand, st.operation)
         IN  [st EXCEPT !.currentOperand = NumToString(r.result),
                        !.operation = NULL,
                        !.shouldResetScreen = TRUE,
                        !.alerts = @ + r.alert,
                        !.calcs = @ + 1]

\* calculate that does not raise shouldResetScreen after computing
calculateKeepsFlag(st) ==
    IF st.previousOperand = <<>> \/ st.operation = NULL THEN st
    ELSE LET r == compute(st.previousOperand, st.currentOperand, st.operation)
         IN  [st EXCEPT !.currentOperand = NumToString(r.result),
                        !.operation = NULL,
                        !.previousOperand = <<>>,
                        !.alerts = @ + r.alert,
                        !.calcs = @ + 1]

\* calculate that raises shouldResetScreen even when nothing is pending
calculateAlwaysResets(st) ==
    IF st.previousOperand = <<>> \/ st.operation = NULL
    THEN [st EXCEPT !.shouldResetScreen = TRUE]
    ELSE LET r == compute(st.previousOperand, st.currentOperand, st.operation)
         IN  [st EXCEPT !.currentOperand = NumToString(r.result),
                        !.operation = NULL,
                        !.previousOperand = <<>>,
                        !.shouldResetScreen = TRUE,
                        !.alerts = @ + r.alert,
                        !.calcs = @ + 1]

calculate(st) ==
    IF st.previousOperand = <<>> \/ st.operation = NULL THEN st
    ELSE LET r == compute(st.previousOperand, st.currentOperand, st.operation)
         IN  [st EXCEPT !.currentOperand = NumToString(r.result),
                        !.operation = NULL,
                        !.previousOperand = <<>>,
                        !.shouldResetScreen = TRUE,
                        !.alerts = @ + r.alert,
                        !.calcs = @ + 1]

\* ------------------------------------------------------------------------
\* InputHandler
\* ------------------------------------------------------------------------

\* appendNumber that starts a fresh operand but leaves shouldResetScreen set
appendNumberKeepsFlag(st, number) ==
    LET st1 == IF st.shouldResetScreen
               THEN [st EXCEPT !.currentOperand = <<"0">>]
               ELSE st
        current == st1.currentOperand
    IN  IF number = "." /\ Includes(current, ".") THEN st1
        ELSE IF current = <<"0">> /\ number # "."
             THEN updateDisplay([st1 EXCEPT !.currentOperand = <<number>>])
             ELSE updateDisplay([st1 EXCEPT !.currentOperand = current \o <<number>>])

\* appendNumber that clears the flag but keeps the stale operand
appendNumberKeepsOperand(st, number) ==
    LET st1 == [st EXCEPT !.shouldResetScreen = FALSE]
        current == st1.currentOperand
    IN  IF number = "." /\ Includes(current, ".") THEN st1
        ELSE IF current = <<"0">> /\ number # "."
             THEN updateDisplay([st1 EXCEPT !.currentOperand = <<number>>])
             ELSE updateDisplay([st1 EXCEPT !.currentOperand = current \o <<number>>])

\* appendNumber without the test for a second decimal point
appendNumberNoDotGuard(st, number) ==
    LET st1 == IF st.shouldResetScreen
               THEN [st EXCEPT !.currentOperand = <<"0">>, !.shouldResetScreen = FALSE]
               ELSE st
        current == st1.currentOperand
    IN  IF current = <<"0">> /\ number # "."
        THEN updateDisplay([st1 EXCEPT !.currentOperand = <<number>>])
        ELSE updateDisplay([st1 EXCEPT !.currentOperand = current \o <<number>>])

\* appendNumber that always appends, also to the initial zero
appendNumberNoZeroReplace(st, number) ==
    LET st1 == IF st.shouldResetScreen
               THEN [st EXCEPT !.currentOperand = <<"0">>, !.shouldResetScreen = FALSE]
               ELSE st
        current == st1.currentOperand
    IN  IF number = "." /\ Includes(current, ".") THEN st1
        ELSE updateDisplay([st1 EXCEPT !.currentOperand = current \o <<number>>])

appendNumber(st, number) ==
    LET st1 == IF st.shouldResetScreen
               THEN [st EXCEPT !.currentOperand = <<"0">>, !.shouldResetScreen = FALSE]
               ELSE st
        current == st1.currentOperand
    IN  IF number = "." /\ Includes(current, ".") THEN st1
        ELSE IF current = <<"0">> /\ number # "."
             THEN updateDisplay([st1 EXCEPT !.currentOperand = <<number>>])
             ELSE updateDisplay([st1 EXCEPT !.currentOperand = current \o <<number>>])

\* a fold condition that does not look at shouldResetScreen
FoldsIgnoresReset(st) ==
    st.previousOperand # <<>> /\ st.operation # NULL

\* the fold of setOperation runs: a second operand has been typed
Folds(st) ==
    st.previousOperand # <<>> /\ st.operation # NULL /\ ~st.shouldResetScreen

\* setOperation that moves the operand away and leaves "0" behind
setOperationMovesOperand(st, operator) ==
    IF st.currentOperand = <<>> THEN st
    ELSE LET st1 == IF Folds(st) THEN calculate(st) ELSE st
         IN  updateDisplay([st1 EXCEPT !.operation = operator,
                                       !.previousOperand = st1.currentOperand,
                                       !.currentOperand = <<"0">>,
                                       !.shouldResetScreen = TRUE])

\* setOperation that never folds the pending operation
setOperationNoFold(st, operator) ==
    IF st.currentOperand = <<>> THEN st
    ELSE updateDisplay([st EXCEPT !.operation = operator,
                                  !.previousOperand = st.currentOperand,
                                  !.shouldResetScreen = TRUE])

setOperation(st, operator) ==
    IF st.currentOperand = <<>> THEN st
    ELSE LET st1 == IF Folds(st) THEN calculate(st) ELSE st
         IN  updateDisplay([st1 EXCEPT !.operation = operator,
                                       !.previousOperand = st1.currentOperand,
                                       !.shouldResetScreen = TRUE])

clear(st) == updateDisplay(reset(st))

\* backspace that edits the operand even when the screen should reset
backspaceNoClear(st) ==
    LET current == st.currentOperand
    IN  IF Len(current) > 1
        THEN updateDisplay([st EXCEPT !.currentOperand =
                                         SubSeq(current, 1, Len(current) - 1)])
        ELSE updateDisplay([st EXCEPT !.currentOperand = <<"0">>])

\* backspace that removes the last character also when it is the only one
backspaceEmpties(st) ==
    LET current == st.currentOperand
    IN  IF st.shouldResetScreen THEN clear(st)
        ELSE updateDisplay([st EXCEPT !.currentOperand =
                                         SubSeq(current, 1, Len(current) - 1)])

\* backspace that, when the screen should reset, resets only the operand
\* and the flag and keeps the pending operation
backspaceKeepsPending(st) ==
    LET current == st.currentOperand
    IN  IF st.shouldResetScreen
        THEN updateDisplay([st EXCEPT !.currentOperand = <<"0">>,
                                      !.shouldResetScreen = FALSE])
        ELSE IF Len(current) > 1
             THEN updateDisplay([st EXCEPT !.currentOperand =
                                              SubSeq(current, 1, Len(current) - 1)])
             ELSE updateDisplay([st EXCEPT !.currentOperand = <<"0">>])

backspace(st) ==
    LET current == st.currentOperand
    IN  IF st.shouldResetScreen THEN clear(st)
        ELSE IF Len(current) > 1
             THEN updateDisplay([st EXCEPT !.currentOperand =
                                              SubSeq(current, 1, Len(current) - 1)])
             ELSE updateDisplay([st EXCEPT !.currentOperand = <<"0">>])

\* equals that does not refresh the display
equalsNoUpdate(st) == calculate(st)

equals(st) == updateDisplay(calculate(st))

\* ------------------------------------------------------------------------
\* Observer of the input sequence typed since the default state
\*   ph "a"      the first operand is being typed (typed = the tokens so far)
\*   ph "op1"    an operator was pressed after a (a, op recorded; swapped
\*               when a further operator replaced it before any digit)
\*   ph "b"      the second operand is being typed
\*   ph "op2"    a second operator was pressed after b (expected = a op b)
\*   ph "c"      the third operand is being typed
\*   ph "done0"  equals was pressed right after a op (a, op kept,
\*               expected = a op a)
\*   ph "done1"  equals was pressed after a op b   (op kept,
\*               expected = a op b)
\*   ph "done2"  equals was pressed after a op1 b op2 c
\*               (expected = (a op1 b) op2 c)
\*   ph "off"    any other input sequence
\* ------------------------------------------------------------------------

\* longest token sequence the observer records for the first operand
MaxTyped == 4

Fresh ==
    [ph |-> "a", typed |-> <<>>, a |-> <<>>, op |-> NULL, swapped |-> FALSE,
     expected |-> Zero]

Off == [Fresh EXCEPT !.ph = "off"]

Track(c, evt, pre, post) ==
    LET h == evt[1]
        x == computeNum(parseFloat(c.a), parseFloat(pre.currentOperand), c.op).result
    IN  IF c.ph = "a" /\ h = "appendNumber" /\ Len(c.typed) < MaxTyped
          THEN [c EXCEPT !.typed = Append(@, evt[2])]
        ELSE IF Fields(post) = Default THEN Fresh
        ELSE IF c.ph = "a" /\ h = "setOperation"
          THEN [Fresh EXCEPT !.ph = "op1", !.a = pre.currentOperand, !.op = evt[2]]
        ELSE IF c.ph = "op1" /\ h = "setOperation"
          THEN [c EXCEPT !.op = evt[2], !.swapped = TRUE]
        ELSE IF c.ph = "op1" /\ h = "equals"
          THEN [Fresh EXCEPT !.ph = "done0", !.a = c.a, !.op = c.op,
                  !.expected = computeNum(parseFloat(c.a), parseFloat(c.a), c.op).result]
        ELSE IF c.ph \in {"op1", "b"} /\ h = "appendNumber"
          THEN [c EXCEPT !.ph = "b"]
        ELSE IF c.ph = "b" /\ h = "setOperation"
          THEN [Fresh EXCEPT !.ph = "op2", !.op = evt[2], !.expected = x]
        ELSE IF c.ph = "b" /\ h = "equals"
          THEN [Fresh EXCEPT !.ph = "done1", !.op = c.op, !.swapped = c.swapped,
                  !.expected = x]
        ELSE IF c.ph \in {"op2", "c"} /\ h = "appendNumber"
          THEN [c EXCEPT !.ph = "c"]
        ELSE IF c.ph = "c" /\ h = "equals"
          THEN [Fresh EXCEPT !.ph = "done2",
                  !.expected = computeNum(c.expected,
                                   parseFloat(pre.currentOperand), c.op).result]
        ELSE Off

\* ------------------------------------------------------------------------
\* Bounds on what is explored
\* ------------------------------------------------------------------------

\* the calculation pending in st stays within the modelled numbers
CalcInBounds(st) ==
    (st.previousOperand # <<>> /\ st.operation # NULL) =>
        LET r == compute(st.previousOperand, st.currentOperand, st.operation).result
        IN  /\ r.kind # "beyond"
            /\ r.scale <= MaxFrac
            /\ r.mant <= MaxResult * Pow(10, r.scale)

\* ------------------------------------------------------------------------
\* The state machine: one action per event handler
\* ------------------------------------------------------------------------

Init ==
    /\ currentOperand = <<"0">>
    /\ previousOperand = <<>>
    /\ operation = NULL
    /\ shouldResetScreen = FALSE
    /\ displayCurrent = formatNumber(<<"0">>)
    /\ displayPrevious = <<>>
    /\ alerts = 0
    /\ calcs = 0
    /\ last = <<"init">>
    /\ chain = Fresh

\* the handler named by evt ran to completion and left the store as post
Commit(post, evt) ==
    /\ currentOperand' = post.currentOperand
    /\ previousOperand' = post.previousOperand
    /\ operation' = post.operation
    /\ shouldResetScreen' = post.shouldResetScreen
    /\ displayCurrent' = post.displayCurrent
    /\ displayPrevious' = post.displayPrevious
    /\ alerts' = post.alerts
    /\ calcs' = post.calcs
    /\ last' = evt
    /\ chain' = Track(chain, evt, Store, post)

\* click on a [data-number] button
AppendNumber ==
    \E number \in Tokens :
        /\ Len(appendNumber(Store, number).currentOperand) <= MaxLen
        /\ Commit(appendNumber(Store, number), <<"appendNumber", number>>)

\* click on a [data-operator] button
SetOperation ==
    \E operator \in Operators :
        /\ Folds(Store) => CalcInBounds(Store)
        /\ Commit(setOperation(Store, operator), <<"setOperation", operator>>)

\* click on the clear button
Clear == Commit(clear(Store), <<"clear", Fields(Store) # Default>>)

\* click on the backspace button
Backspace == Commit(backspace(Store), <<"backspace", last[1], calcs>>)

\* click on the equals button
Equals ==
    /\ CalcInBounds(Store)
    /\ Commit(equals(Store), <<"equals">>)

Next == AppendNumber \/ SetOperation \/ Clear \/ Backspace \/ Equals

Spec == Init /\ [][Next]_vars

\* click on a [data-operator] button whose symbol may be any string:
\* setOperation stores what it is given
SetAnyOperation ==
    \E operator \in OperatorTokens :
        /\ Folds(Store) => CalcInBounds(Store)
        /\ Commit(setOperation(Store, operator), <<"setOperation", operator>>)

NextAnyOperator ==
    AppendNumber \/ SetAnyOperation \/ Clear \/ Backspace \/ Equals

\* the calculator driven with operator symbols outside the four of compute
SpecAnyOperator == Init /\ [][NextAnyOperator]_vars

\* ------------------------------------------------------------------------
\* Properties
\* ------------------------------------------------------------------------

\* only digit characters and at most one "."
IsDecimalInProgress(s) ==
    /\ \A i \in 1..Len(s) : s[i] \in AllDigits \cup {"."}
    /\ DotCount(s) <= 1

\* "0" followed by a digit is dropped from the front, repeatedly
RECURSIVE StripLeadingZeros(_)
StripLeadingZeros(s) ==
    IF Len(s) >= 2 /\ s[1] = "0" /\ s[2] \in AllDigits
    THEN StripLeadingZeros(Tail(s))
    ELSE s

\* C1: chaining is left to right.  After a, op1, b, op2 typed from the
\* default state, previousOperand is the string of (a op1 b) and op2 is
\* pending; after c and equals, currentOperand is the string of
\* ((a op1 b) op2 c).
ChainFoldsLeftToRight ==
    /\ chain.ph \in {"op2", "c"} =>
          /\ previousOperand = NumToString(chain.expected)
          /\ operation = chain.op
    /\ chain.ph = "done2" =>
          /\ currentOperand = NumToString(chain.expected)
          /\ previousOperand = <<>>
          /\ operation = NULL

\* 5 + 5 * 5 = has given 50 (with precedence it would be 30)
ChainWitness ==
    /\ chain.ph = "done2"
    /\ last = <<"equals">>
    /\ currentOperand = <<"5", "0">>

\* C2: a calculation that divides by zero leaves the four fields as they
\* were before calculate() was called: equals changes nothing, and
\* setOperation only does its own assignments on the untouched operand.
DivideByZeroKeepsState ==
    [][alerts' = 1 =>
          \/ /\ last' = <<"equals">>
             /\ state' = state
          \/ /\ last'[1] = "setOperation"
             /\ currentOperand' = currentOperand
             /\ previousOperand' = currentOperand
             /\ operation' = last'[2]
             /\ shouldResetScreen']_vars

\* C3: the handler raises one alert when it runs a calculation with the
\* division pending and a current operand that parses to zero, and none
\* in every other case.
AlertIffDivideByZero ==
    [][alerts' = IF /\ calcs' = 1
                    /\ operation = "/"
                    /\ IsZero(parseFloat(currentOperand))
                 THEN 1 ELSE 0]_vars

\* the fold of setOperation has divided by zero and raised the alert
AlertWitness ==
    /\ alerts = 1
    /\ calcs = 1
    /\ last[1] = "setOperation"
    /\ currentOperand = <<"0">>

\* C4 as stated: backspace right after equals gives the default state,
\* whatever equals did.
BackspaceAfterEqualsClears ==
    (last[1] = "backspace" /\ last[2] = "equals") => Fields(Store) = Default

\* C4 amended: backspace right after an equals that ran a calculation (an
\* operation was pending) gives the default state.
BackspaceAfterCalculationClears ==
    (last[1] = "backspace" /\ last[2] = "equals" /\ last[3] = 1) =>
        Fields(Store) = Default

BackspaceAfterCalculationWitness ==
    /\ last = <<"backspace", "equals", 1>>
    /\ Fields(Store) = Default

\* C5: clear leaves the default state.
ClearRestoresDefault ==
    last[1] = "clear" => Fields(Store) = Default

\* clear ran in a state that was not the default state
ClearWitness ==
    /\ last = <<"clear", TRUE>>
    /\ Fields(Store) = Default

\* C6 as stated: currentOperand is always digits with at most one ".".
OperandIsDecimalInProgress == IsDecimalInProgress(currentOperand)

\* C6 amended: while an operand is being typed (shouldResetScreen false)
\* currentOperand is digits with at most one ".".
TypedOperandIsDecimalInProgress ==
    ~shouldResetScreen => IsDecimalInProgress(currentOperand)

\* a decimal is being typed after a negative result became the left operand
TypedOperandWitness ==
    /\ ~shouldResetScreen
    /\ Includes(currentOperand, ".")
    /\ previousOperand # <<>>
    /\ Head(previousOperand) = "-"

\* C7: currentOperand never holds more than one ".".
AtMostOneDot == DotCount(currentOperand) <= 1

\* a second "." was typed into the first operand and rejected
AtMostOneDotWitness ==
    /\ chain.ph = "a"
    /\ DotCount(chain.typed) = 2
    /\ DotCount(currentOperand) = 1

\* C8: after every handler, operation is non-null exactly when
\* previousOperand is non-empty.
OperationIffPrevious == (operation # NULL) <=> (previousOperand # <<>>)

\* a fold has run and left a new pending operation
OperationIffPreviousWitness ==
    /\ last[1] = "setOperation"
    /\ calcs = 1
    /\ operation # NULL
    /\ previousOperand # <<>>

\* C9: operator swap.  With an operation pending and shouldResetScreen
\* true, setOperation(op2) runs no calculation and changes only operation;
\* after a, op1, op2, b, equals the result is a op2 b.
OperatorSwap ==
    /\ [](chain.ph = "done1" => currentOperand = NumToString(chain.expected))
    /\ [][(operation # NULL /\ shouldResetScreen /\ last'[1] = "setOperation") =>
             /\ calcs' = 0
             /\ alerts' = 0
             /\ operation' = last'[2]
             /\ UNCHANGED <<currentOperand, previousOperand, shouldResetScreen>>]_vars

\* 0, +, -, 5, = has given -5
OperatorSwapWitness ==
    /\ chain.ph = "done1"
    /\ chain.swapped
    /\ currentOperand = <<"-", "5">>

\* C10: tokens typed from the default state, with at most one ".", give the
\* concatenation of "0" and the tokens with every leading "0" that a digit
\* follows dropped; no operand begins with "0" followed by a digit.
AppendConcatenates ==
    /\ (chain.ph = "a" /\ DotCount(chain.typed) <= 1) =>
          currentOperand = StripLeadingZeros(<<"0">> \o chain.typed)
    /\ (Len(currentOperand) >= 2 /\ currentOperand[1] = "0") =>
          currentOperand[2] \notin AllDigits

\* 0, 5, ., 5 was typed and reads 5.5
AppendWitness ==
    /\ chain.ph = "a"
    /\ chain.typed = <<"0", "5", ".", "5">>
    /\ currentOperand = <<"5", ".", "5">>

\* C11: appendNumber(".") changes none of the four fields when
\* shouldResetScreen is false and currentOperand already holds a ".", so a
\* second "." typed right after the first changes nothing.
SecondDotIsNoOp ==
    [][(/\ last'[1] = "appendNumber"
        /\ last'[2] = "."
        /\ ~shouldResetScreen
        /\ Includes(currentOperand, ".")) => state' = state]_vars

\* 5, ., . was typed and the operand still reads "5."
SecondDotWitness ==
    /\ chain.ph = "a"
    /\ chain.typed = <<"5", ".", ".">>
    /\ last = <<"appendNumber", ".">>
    /\ currentOperand = <<"5", ".">>

\* C12: backspace with shouldResetScreen true gives the default state,
\* dropping any pending previousOperand and operation; with
\* shouldResetScreen false it removes the last character of currentOperand
\* ("0" when one character was left) and changes nothing else.
BackspaceClearsOrDeletes ==
    [][last'[1] = "backspace" =>
          IF shouldResetScreen
          THEN /\ currentOperand' = <<"0">>
               /\ previousOperand' = <<>>
               /\ operation' = NULL
               /\ ~shouldResetScreen'
          ELSE /\ currentOperand' =
                    IF Len(currentOperand) = 1 THEN <<"0">>
                    ELSE SubSeq(currentOperand, 1, Len(currentOperand) - 1)
               /\ UNCHANGED <<previousOperand, operation, shouldResetScreen>>]_vars

\* backspace right after an operator has dropped the pending operation
BackspaceClearsWitness ==
    /\ last = <<"backspace", "setOperation", 0>>
    /\ currentOperand = <<"0">>
    /\ previousOperand = <<>>
    /\ operation = NULL

\* C13: equals with no operation pending changes none of the four fields
\* and computes nothing; hence equals right after equals changes nothing.
EqualsWithoutOperationIsNoOp ==
    [][last' = <<"equals">> =>
          /\ (previousOperand = <<>> \/ operation = NULL) =>
                 (state' = state /\ calcs' = 0 /\ alerts' = 0)
          /\ last = <<"equals">> => state' = state]_vars

\* equals was pressed again on a displayed result and computed nothing
EqualsTwiceWitness ==
    /\ last = <<"equals">>
    /\ calcs = 0
    /\ shouldResetScreen
    /\ operation = NULL

\* the arithmetic value of (x operator y) for the four operators
Applied(x, y, operator) ==
    CASE operator = "+" -> Add(x, y)
      [] operator = "-" -> Sub(x, y)
      [] operator = "*" -> Mul(x, y)
      [] operator = "/" -> Div(x, y)

\* C14: a calculation with one of the four operators pending that does not
\* divide by zero leaves in currentOperand the string of
\* (previousOperand operation currentOperand), taken on the values before
\* the call; when equals ran it, operation is null, previousOperand is
\* empty and shouldResetScreen is true afterwards.
CalculateCommitsResult ==
    [][(calcs' = 1 /\ alerts' = 0 /\ operation \in Operators) =>
          /\ currentOperand' =
                NumToString(Applied(parseFloat(previousOperand),
                                    parseFloat(currentOperand), operation))
          /\ last' = <<"equals">> =>
                /\ operation' = NULL
                /\ previousOperand' = <<>>
                /\ shouldResetScreen']_vars

\* equals has computed the fraction 2.5 (0.5 * 5 or 5 * 0.5)
CalculateCommitsWitness ==
    /\ last = <<"equals">>
    /\ calcs = 1
    /\ alerts = 0
    /\ currentOperand = <<"2", ".", "5">>
    /\ previousOperand = <<>>
    /\ operation = NULL
    /\ shouldResetScreen

\* C15: shouldResetScreen is false at the start; a handler leaves it true
\* exactly when it is setOperation, an equals that ran a calculation, or
\* a handler that changed nothing in a state where it was true.  The
\* first appendNumber(t) in such a state starts a fresh operand:
\* currentOperand becomes t ("0." when t is "."), shouldResetScreen
\* becomes false, previousOperand and operation stay.
ResetAfterOperatorOrResult ==
    /\ [](last = <<"init">> => ~shouldResetScreen)
    /\ [][/\ shouldResetScreen' <=>
               (\/ last'[1] = "setOperation"
                \/ (last' = <<"equals">> /\ calcs' = 1)
                \/ (shouldResetScreen /\ state' = state))
          /\ (shouldResetScreen /\ last'[1] = "appendNumber") =>
               /\ currentOperand' = IF last'[2] = "." THEN <<"0", ".">>
                                     ELSE <<last'[2]>>
               /\ ~shouldResetScreen'
               /\ UNCHANGED <<previousOperand, operation>>]_vars

\* after 55 and an operator, 5 was typed and the operand reads 5, not 555
FreshOperandWitness ==
    /\ last = <<"appendNumber", "5">>
    /\ currentOperand = <<"5">>
    /\ previousOperand = <<"5", "5">>
    /\ operation = "+"
    /\ ~shouldResetScreen

\* C16: currentOperand is never the empty string, so setOperation never
\* returns at its empty-operand guard: after every setOperation(op),
\* operation is op, previousOperand is the current operand and
\* shouldResetScreen is true.
OperandNeverEmpty ==
    /\ currentOperand # <<>>
    /\ last[1] = "setOperation" =>
          /\ operation = last[2]
          /\ previousOperand = currentOperand
          /\ shouldResetScreen

\* with an operation pending, backspace on the second operand has removed
\* its only character and left "0"
OperandNeverEmptyWitness ==
    /\ last = <<"backspace", "appendNumber", 0>>
    /\ currentOperand = <<"0">>
    /\ operation # NULL
    /\ ~shouldResetScreen

\* C18: whenever an operation is pending and shouldResetScreen is true,
\* currentOperand equals previousOperand; hence equals pressed right after
\* a, op computes a op a from the operand typed once.
OperandCopiedToPrevious ==
    /\ (operation # NULL /\ shouldResetScreen) =>
          currentOperand = previousOperand
    /\ chain.ph = "done0" =>
          /\ calcs = 1
          /\ currentOperand = NumToString(chain.expected)
          /\ operation = NULL
          /\ previousOperand = <<>>

\* 5, +, = has given 10
OperandCopiedWitness ==
    /\ chain.ph = "done0"
    /\ chain.a = <<"5">>
    /\ chain.op = "+"
    /\ last = <<"equals">>
    /\ currentOperand = <<"1", "0">>

\* C17: a calculation run with a pending operator that is none of the four
\* raises no alert and takes the current operand as its result:
\* currentOperand becomes the string of its own number, and after equals
\* operation is null and previousOperand is empty.
UnknownOperatorKeepsOperand ==
    [][(calcs' = 1 /\ operation \notin Operators) =>
          /\ alerts' = 0
          /\ currentOperand' = NumToString(parseFloat(currentOperand))
          /\ parseFloat(currentOperand') = parseFloat(currentOperand)
          /\ last' = <<"equals">> =>
                /\ operation' = NULL
                /\ previousOperand' = <<>>
                /\ shouldResetScreen']_vars

\* 0, %, 0.5, = has left 0.5
UnknownOperatorWitness ==
    /\ chain.ph = "done1"
    /\ chain.op = UnknownOperator
    /\ last = <<"equals">>
    /\ calcs = 1
    /\ currentOperand = <<"0", ".", "5">>
    /\ operation = NULL

\* C19: after every handler, the early return of a rejected second "."
\* included, the current line shows the format of currentOperand and the
\* previous line shows the format of previousOperand, a space and the
\* operator when an operation is pending and is empty otherwise;
\* refreshing the display changes none of the four fields.
DisplayShowsState ==
    /\ displayCurrent = formatNumber(currentOperand)
    /\ displayPrevious = IF operation # NULL
                         THEN formatNumber(previousOperand) \o <<" ", operation>>
                         ELSE <<>>
    /\ Fields(updateDisplay(Store)) = Fields(Store)

\* ".", "." was typed: the second "." returned before the refresh, the
\* operand "0." is still displayed as 0 and the previous line is empty
DisplayWitness ==
    /\ chain.ph = "a"
    /\ chain.typed = <<".", ".">>
    /\ last = <<"appendNumber", ".">>
    /\ currentOperand = <<"0", ".">>
    /\ displayCurrent = <<"0">>
    /\ displayPrevious = <<>>

====
